---- MODULE Spec2Model ----
(***************************************************************************)
(* Model of nets/ssd_vgg_512.py: the anchor generator                      *)
(* (ssd_anchor_one_layer, ssd_anchors_all_layers) and the loss engine      *)
(* (ssd_losses: per-image hard-negative mining, classification loss and    *)
(* localization loss).                                                     *)
(*                                                                         *)
(* Numbers.  Confidences are quantised to the grid c / ConfMax, so the     *)
(* integer ConfMax stands for the float 1.0.  Losses and relative          *)
(* coordinates are exact rationals [num, den] in lowest terms.  Smooth-L1  *)
(* penalties are kept in units of 1/8, localization values in units of     *)
(* 1/2.                                                                    *)
(***************************************************************************)
EXTENDS Integers, Sequences, FiniteSets, TLC

\* ------------------------------------------------------------------ bounds
NumAnchors == 3
ConfMax == 1
BatchSize == 2
MaxLevels == 2
MaxFeat == 2
MaxPercent == 8
MaxFeatLayers == 6

Images == 0 .. (BatchSize - 1)
Anchors == 1 .. NumAnchors
\* Ground-truth labels: 0 is background, 2 a foreground class id.
Labels == {0, 2}
ConfLevels == 0 .. ConfMax
\* negative_ratio as num/den: 1/2, 3/2 and the default 3.
Ratios == {<<1, 2>>, <<3, 2>>, <<3, 1>>}
Alphas == {1, 2}
\* label_smoothing as num/den: the default 0., and 0.1.
NoSmoothing == <<0, 1>>
Smoothings == {NoSmoothing, <<1, 10>>}
\* A 4-d localization (or target) row, in units of 1/2.
LocSet == {<<0, 0, 0, 0>>, <<1, -2, 0, 3>>}
Coords == 1 .. 4
\* A logit row is represented by the cross-entropy it yields for each label.
LogitRows == {[l \in Labels |-> 1], [l \in Labels |-> IF l = 0 THEN 0 ELSE 3]}

VARIABLES
    \* inputs of ssd_losses
    gclasses, confidences, logits, localizations, glocalizations,
    negative_ratio, alpha, label_smoothing,
    \* the mining loop and the outputs of ssd_losses
    img_idx, selected_neg, cls_weight, cls_loss, loc_loss, pc,
    \* arguments of ssd_anchors_all_layers
    img_shape, layers_shape, anchor_sizes, anchor_ratios, anchor_steps, offset,
    \* its loop over the feature layers and its result
    layer_i, layers_anchors, all_anchors, apc,
    \* arguments, locals and position of ssd_size_bounds_to_values
    size_bounds, n_feat_layers, size_img_shape, sb_step, sb_ratio, sb_sizes,
    spc

lossVars == <<gclasses, confidences, logits, localizations, glocalizations,
              negative_ratio, alpha, label_smoothing, img_idx, selected_neg,
              cls_weight, cls_loss, loc_loss, pc>>

anchorVars == <<img_shape, layers_shape, anchor_sizes, anchor_ratios,
                anchor_steps, offset, layer_i, layers_anchors, all_anchors, apc>>

sizeVars == <<size_bounds, n_feat_layers, size_img_shape, sb_step, sb_ratio,
              sb_sizes, spc>>

vars == <<lossVars, anchorVars, sizeVars>>

\* ------------------------------------------------------------ arithmetic
Abs(x) == IF x < 0 THEN -x ELSE x

RECURSIVE GCD(_, _)
GCD(a, b) == IF b = 0 THEN a ELSE GCD(b, a % b)

\* A float: a rational in lowest terms, or NaN (0/0), or no value at all.
Rat(n, d) ==
    LET g == GCD(Abs(n), d)
    IN  [kind |-> "num", num |-> n \div g, den |-> d \div g]
NaN == [kind |-> "nan", num |-> 0, den |-> 0]
Inf == [kind |-> "inf", num |-> 1, den |-> 0]
NoValue == [kind |-> "none", num |-> 0, den |-> 0]
Zero == Rat(0, 1)

\* Float division n / d of two non-negative numbers.
FloatDiv(n, d) ==
    IF d # 0 THEN Rat(n, d) ELSE IF n = 0 THEN NaN ELSE Inf

RECURSIVE SumOver(_, _)
SumOver(S, f) ==
    IF S = {} THEN 0
    ELSE LET x == CHOOSE y \in S : TRUE IN f[x] + SumOver(S \ {x}, f)

\* ------------------------------------------------------ anchor generator
\* A Python 2 number: an int, or a float kept as a fraction in lowest terms.
PyInt(n) == [t |-> "int", num |-> n, den |-> 1]
PyFloat(n, d) ==
    LET g == GCD(Abs(n), d) IN [t |-> "float", num |-> n \div g, den |-> d \div g]

\* a / n for an int n: floor division when a is an int too (the module has
\* no "from __future__ import division"), true division otherwise.
PyDiv(a, n) ==
    IF a.t = "int" THEN PyInt(a.num \div n) ELSE PyFloat(a.num, a.den * n)

\* Widths and heights hold square roots: a value x >= 0 is kept as x * x.
Root(n, d) == [sq |-> Rat(n, d)]

\* y = (y.astype(dtype) + offset) * step / img_shape[0], for row i;
\* x = (x.astype(dtype) + offset) * step / img_shape[1], for column j.
\* offset is the fraction offset[1] / offset[2]; img_shape[1] is the height
\* and img_shape[2] the width (tuples count from 1).
GridYNoOffset(i, shape, step, off) ==
    Rat(i * step, shape[1])
GridY(i, shape, step, off) ==
    Rat((i * off[2] + off[1]) * step, off[2] * shape[1])
GridXByHeight(j, shape, step, off) ==
    Rat((j * off[2] + off[1]) * step, off[2] * shape[1])
GridX(j, shape, step, off) ==
    Rat((j * off[2] + off[1]) * step, off[2] * shape[2])

num_anchorsTwoSizes(sizes, ratios) == 2 + Len(ratios)
num_anchors(sizes, ratios) == Len(sizes) + Len(ratios)

\* The list h (dim = 1) or w (dim = 2), indexed from 0: [0] * num_anchors,
\* then h[0], h[1] when there is a second size, and h[i + di] per ratio.
\*   h[0]      = sizes[0] / img_shape[0]
\*   h[1]      = math.sqrt(sizes[0] * sizes[1]) / img_shape[0]
\*   h[i + di] = sizes[0] / img_shape[0] / math.sqrt(r)
\*   w[i + di] = sizes[0] / img_shape[1] * math.sqrt(r)
ShapeList(dim, shape, sizes, ratios) ==
    LET di == IF Len(sizes) > 1 THEN 2 ELSE 1
        q == PyDiv(sizes[1], shape[dim])
    IN  [n \in 0 .. (num_anchors(sizes, ratios) - 1) |->
            IF n = 0 THEN Root(q.num * q.num, q.den * q.den)
            ELSE IF n = 1 /\ Len(sizes) > 1
            THEN Root(sizes[1].num * sizes[2].num,
                      sizes[1].den * sizes[2].den * shape[dim] * shape[dim])
            ELSE IF n - di + 1 \in 1 .. Len(ratios)
            THEN LET r == ratios[n - di + 1]
                 IN  IF dim = 1
                     THEN Root(q.num * q.num * r[2], q.den * q.den * r[1])
                     ELSE Root(q.num * q.num * r[1], q.den * q.den * r[2])
            ELSE Root(0, 1)]

\* anchors[:, :, di, 0..3] = x, y, w[di], h[di]
AnchorsArray(shape, feat_shape, sizes, ratios, step, off) ==
    [i \in 0 .. (feat_shape[1] - 1) |->
        [j \in 0 .. (feat_shape[2] - 1) |->
            [di \in 0 .. (num_anchors(sizes, ratios) - 1) |->
                <<GridX(j, shape, step, off),
                  GridY(i, shape, step, off),
                  ShapeList(2, shape, sizes, ratios)[di],
                  ShapeList(1, shape, sizes, ratios)[di]>>]]]

\* np.reshape(anchors, [-1, 4]): the rows in C order, the last axis fastest.
\* Each axis is walked in index order, lo .. hi, by halves.
RECURSIVE CellRows(_, _), GridRowRows(_, _, _), GridRows(_, _, _)
CellRows(cell, n) ==
    IF n = 0 THEN <<>> ELSE Append(CellRows(cell, n - 1), cell[n - 1])
GridRowRows(row, lo, hi) ==
    IF lo > hi THEN <<>>
    ELSE IF lo = hi THEN CellRows(row[lo], Cardinality(DOMAIN row[lo]))
    ELSE LET mid == (lo + hi) \div 2
         IN  GridRowRows(row, lo, mid) \o GridRowRows(row, mid + 1, hi)
GridRows(arr, lo, hi) ==
    IF lo > hi THEN <<>>
    ELSE IF lo = hi
    THEN GridRowRows(arr[lo], 0, Cardinality(DOMAIN arr[lo]) - 1)
    ELSE LET mid == (lo + hi) \div 2
         IN  GridRows(arr, lo, mid) \o GridRows(arr, mid + 1, hi)
ReshapeFortran(arr) ==
    LET H == Cardinality(DOMAIN arr)
        W == Cardinality(DOMAIN arr[0])
        A == Cardinality(DOMAIN arr[0][0])
    IN  [p \in 1 .. (H * W * A) |->
            arr[(p - 1) % H][((p - 1) \div H) % W][(p - 1) \div (H * W)]]
Reshape(arr) == GridRows(arr, 0, Cardinality(DOMAIN arr) - 1)

ssd_anchor_one_layer(shape, feat_shape, sizes, ratios, step, off) ==
    Reshape(AnchorsArray(shape, feat_shape, sizes, ratios, step, off))

\* What makes ssd_anchor_one_layer raise: sizes[0] of an empty tuple,
\* math.sqrt of a negative ratio, a division by math.sqrt(0).
OneLayerRaises(sizes, ratios) ==
    \/ Len(sizes) = 0
    \/ \E n \in 1 .. Len(ratios) : ratios[n][1] <= 0

\* np.vstack(layers_anchors)
RECURSIVE VStack(_, _)
VStack(layers, n) ==
    IF n = 0 THEN <<>> ELSE VStack(layers, n - 1) \o layers[n]

\* ---------------------------------------------------------------- mining
\* The operators below take the input tensors as parameters (g: gclasses,
\* c: confidences[:, :, 0], r: negative_ratio), so that two calls of
\* ssd_losses on different batches can be compared in one state.
tensor_shape(x) == <<Cardinality(DOMAIN x), NumAnchors>>

pos_mask(g) == [b \in DOMAIN g |-> [a \in Anchors |-> g[b][a] > 0]]
neg_mask(g) == [b \in DOMAIN g |-> [a \in Anchors |-> ~pos_mask(g)[b][a]]]
float_pos_mask(g) ==
    [b \in DOMAIN g |-> [a \in Anchors |-> IF pos_mask(g)[b][a] THEN 1 ELSE 0]]

\* tf.where(neg_mask, confidences[:, :, 0], float_pos_mask): the float 1.0
\* of a positive anchor is ConfMax on the confidence grid.
nvaluesZeroForPos(g, c) ==
    [b \in DOMAIN g |-> [a \in Anchors |->
        IF neg_mask(g)[b][a] THEN c[b][a] ELSE 0]]
nvalues(g, c) ==
    [b \in DOMAIN g |-> [a \in Anchors |->
        IF neg_mask(g)[b][a] THEN c[b][a]
        ELSE float_pos_mask(g)[b][a] * ConfMax]]

\* n_pos = tf.reduce_sum(img_float_pos_mask), of image b alone.
n_posOfBatch(g, b) ==
    SumOver(DOMAIN g, [i \in DOMAIN g |-> SumOver(Anchors, float_pos_mask(g)[i])])
n_pos(g, b) == SumOver(Anchors, float_pos_mask(g)[b])

max_neg_entries(g, b) ==
    SumOver(Anchors, [a \in Anchors |-> IF neg_mask(g)[b][a] THEN 1 ELSE 0])

\* n_neg = cast(minimum(max_neg_entries, n_pos * negative_ratio), int32)
n_neg(g, r, b) ==
    LET num == n_pos(g, b) * r[1]
        den == r[2]
        m   == max_neg_entries(g, b)
    IN  IF m * den <= num THEN m ELSE num \div den

\* tf.nn.top_k(x, k): the k largest values of the tuple x, in descending
\* order.
Remove(x, i) == [j \in 1 .. (Len(x) - 1) |-> IF j < i THEN x[j] ELSE x[j + 1]]
RECURSIVE top_k(_, _)
top_k(x, k) ==
    IF k = 0 THEN <<>>
    ELSE LET m == CHOOSE i \in 1 .. Len(x) : \A j \in 1 .. Len(x) : x[j] <= x[i]
         IN  <<x[m]>> \o top_k(Remove(x, m), k - 1)

\* -row, as a tuple.
RECURSIVE Negated(_, _)
Negated(row, n) == IF n = 0 THEN <<>> ELSE Append(Negated(row, n - 1), -row[n])

\* The outcome of mining one image: a 0/1 row, or the InvalidArgument error
\* that val[-1] raises on an empty tensor.
Row(sel) == [err |-> FALSE, sel |-> sel]
MiningError == [err |-> TRUE, sel |-> [a \in Anchors |-> 0]]

has_posNoMask(g, c, r, b) ==
    LET img_neg_conf == nvalues(g, c)[b]
        val == top_k(Negated(img_neg_conf, NumAnchors), n_neg(g, r, b))
    IN  IF Len(val) = 0 THEN MiningError
        ELSE LET min_val == val[Len(val)]
             IN  Row([a \in Anchors |->
                     IF img_neg_conf[a] <= -min_val THEN 1 ELSE 0])
has_pos(g, c, r, b) ==
    LET img_neg_conf == nvalues(g, c)[b]
        img_neg_mask == neg_mask(g)[b]
        val == top_k(Negated(img_neg_conf, NumAnchors), n_neg(g, r, b))
    IN  IF Len(val) = 0 THEN MiningError
        ELSE LET min_val == val[Len(val)]
             IN  Row([a \in Anchors |->
                     IF img_neg_mask[a] /\ img_neg_conf[a] <= -min_val
                     THEN 1 ELSE 0])

no_pos(g, b) == Row([a \in Anchors |-> 0])

\* tf.cond(n_pos > 0, has_pos, no_pos)
selected_img_negNoCond(g, c, r, b) == has_pos(g, c, r, b)
selected_img_neg(g, c, r, b) ==
    IF n_pos(g, b) > 0 THEN has_pos(g, c, r, b) ELSE no_pos(g, b)

\* ---------------------------------------------------------------- losses
\* cls_weight = selected_neg + float_pos_mask, on the stacked rows.
ClsWeight(g, sel) ==
    [b \in DOMAIN g |-> [a \in Anchors |->
        sel[b + 1].sel[a] + float_pos_mask(g)[b][a]]]

\* N = tf.reduce_sum(float_pos_mask)
NPos(g) ==
    SumOver(DOMAIN g, [b \in DOMAIN g |-> SumOver(Anchors, float_pos_mask(g)[b])])

\* sparse_softmax_cross_entropy_with_logits(logits, labels), per anchor.
XEnt(lg, g) == [b \in DOMAIN g |-> [a \in Anchors |-> lg[b][a][g[b][a]]]]

ClsLossAlwaysDivide(lg, g, w) ==
    FloatDiv(SumOver(DOMAIN g, [b \in DOMAIN g |->
                 SumOver(Anchors, [a \in Anchors |->
                     XEnt(lg, g)[b][a] * w[b][a]])]),
             NPos(g))
ClsLoss(lg, g, w) ==
    IF NPos(g) > 0
    THEN FloatDiv(SumOver(DOMAIN g, [b \in DOMAIN g |->
                      SumOver(Anchors, [a \in Anchors |->
                          XEnt(lg, g)[b][a] * w[b][a]])]),
                  NPos(g))
    ELSE Zero

\* custom_layers.abs_smooth on an error of k halves, in eighths:
\* 0.5 * e^2 for |e| < 1, |e| - 0.5 otherwise.
abs_smooth(k) == IF Abs(k) < 2 THEN k * k ELSE 4 * Abs(k) - 4

\* sum over the 4 coordinates of abs_smooth(localizations - glocalizations)
AnchorPenalty(loc, gloc) ==
    SumOver(Coords, [i \in Coords |-> abs_smooth(loc[i] - gloc[i])])

LocLossNoMask(loc, gloc, g, al) ==
    IF NPos(g) > 0
    THEN FloatDiv(al * SumOver(DOMAIN g, [b \in DOMAIN g |->
                      SumOver(Anchors, [a \in Anchors |->
                          AnchorPenalty(loc[b][a], gloc[b][a])])]),
                  8 * NPos(g))
    ELSE Zero
LocLoss(loc, gloc, g, al) ==
    IF NPos(g) > 0
    THEN FloatDiv(al * SumOver(DOMAIN g, [b \in DOMAIN g |->
                      SumOver(Anchors, [a \in Anchors |->
                          AnchorPenalty(loc[b][a], gloc[b][a])
                              * float_pos_mask(g)[b][a]])]),
                  8 * NPos(g))
    ELSE Zero

\* --------------------------------------------------------- initial states
GRows == [Anchors -> Labels]
CRows == [Anchors -> ConfLevels]

\* The rows of the images next to the one drawn freely: no positive, one
\* positive (the first anchor), every anchor positive.
RepKinds == {"none", "one", "all"}
RepG(k) == [a \in Anchors |->
               IF k = "all" \/ (k = "one" /\ a = 1) THEN 2 ELSE 0]
RepC == [a \in Anchors |-> a % (ConfMax + 1)]
DefaultLogits == [l \in Labels |-> 1]
ZeroLoc == <<0, 0, 0, 0>>

NoWeights == [b \in Images |-> [a \in Anchors |-> 0]]

Fresh ==
    /\ img_idx = 0
    /\ selected_neg = <<>>
    /\ cls_weight = NoWeights
    /\ cls_loss = NoValue
    /\ loc_loss = NoValue
    /\ pc = "mining"

\* Labels, confidences and negative_ratio vary; the rest is fixed.
InitMine ==
    \E f \in Images, gr \in GRows, cr \in CRows, k \in RepKinds, r \in Ratios :
        /\ gclasses = [b \in Images |-> IF b = f THEN gr ELSE RepG(k)]
        /\ confidences = [b \in Images |-> IF b = f THEN cr ELSE RepC]
        /\ negative_ratio = r
        /\ logits = [b \in Images |-> [a \in Anchors |-> DefaultLogits]]
        /\ localizations = [b \in Images |-> [a \in Anchors |-> ZeroLoc]]
        /\ glocalizations = [b \in Images |-> [a \in Anchors |-> ZeroLoc]]
        /\ alpha = 1
        /\ label_smoothing = NoSmoothing
        /\ Fresh

\* Labels, logits, localizations, targets and alpha vary; the rest is fixed.
InitLoss ==
    \E f \in Images, gr \in GRows, lr \in [Anchors -> LocSet], gl \in LocSet,
       lg \in LogitRows, k \in {"none", "one"}, al \in Alphas :
        /\ gclasses = [b \in Images |-> IF b = f THEN gr ELSE RepG(k)]
        /\ confidences = [b \in Images |-> RepC]
        /\ negative_ratio = <<3, 1>>
        /\ logits = [b \in Images |-> [a \in Anchors |-> lg]]
        /\ localizations =
               [b \in Images |-> IF b = f THEN lr ELSE [a \in Anchors |-> ZeroLoc]]
        /\ glocalizations = [b \in Images |-> [a \in Anchors |-> gl]]
        /\ alpha = al
        /\ label_smoothing = NoSmoothing
        /\ Fresh

\* No call of the anchor generator.
AnchorIdle ==
    /\ img_shape = <<512, 512>>
    /\ layers_shape = <<>>
    /\ anchor_sizes = <<>>
    /\ anchor_ratios = <<>>
    /\ anchor_steps = <<>>
    /\ offset = <<1, 2>>
    /\ layer_i = 0
    /\ layers_anchors = <<>>
    /\ all_anchors = <<>>
    /\ apc = "idle"

\* No call of ssd_size_bounds_to_values.
SizesIdle ==
    /\ size_bounds = <<10, 90>>
    /\ n_feat_layers = 7
    /\ size_img_shape = <<512, 512>>
    /\ sb_step = 0
    /\ sb_ratio = 0
    /\ sb_sizes = <<>>
    /\ spc = "idle"

\* No call of ssd_losses.
LossIdle ==
    /\ gclasses = [b \in Images |-> [a \in Anchors |-> 0]]
    /\ confidences = [b \in Images |-> RepC]
    /\ negative_ratio = <<3, 1>>
    /\ logits = [b \in Images |-> [a \in Anchors |-> DefaultLogits]]
    /\ localizations = [b \in Images |-> [a \in Anchors |-> ZeroLoc]]
    /\ glocalizations = [b \in Images |-> [a \in Anchors |-> ZeroLoc]]
    /\ alpha = 1
    /\ label_smoothing = NoSmoothing
    /\ img_idx = 0
    /\ selected_neg = <<>>
    /\ cls_weight = NoWeights
    /\ cls_loss = NoValue
    /\ loc_loss = NoValue
    /\ pc = "idle"

Init == (InitMine \/ InitLoss) /\ AnchorIdle /\ SizesIdle

\* The configurations of SSDNet.anchors(img_shape): image shapes (height,
\* width), feature shapes, one or two reference sizes given as ints or as
\* floats, ratios num/den, strides, the offset 0.5 or 0.
ImgShapes == {<<512, 512>>, <<512, 256>>, <<256, 512>>}
FeatShapes == (1 .. MaxFeat) \X (1 .. MaxFeat)
SizeLists == {<<PyInt(100)>>, <<PyFloat(100, 1)>>,
              <<PyInt(100), PyInt(200)>>, <<PyFloat(100, 1), PyFloat(200, 1)>>}
RatioLists == {<<>>, <<<<4, 1>>, <<1, 4>>>>}
Steps == {128, 256}
Offsets == {<<1, 2>>, <<0, 1>>}

\* The levels next to the one drawn freely.
OtherShape == <<1, 2>>
OtherSizes == <<PyFloat(200, 1), PyFloat(300, 1)>>
OtherRatios == <<<<4, 1>>>>
OtherStep == 128

InitAnchors ==
    \E n \in 1 .. MaxLevels, shape \in ImgShapes, off \in Offsets :
    \E f \in 1 .. n, fs \in FeatShapes, sz \in SizeLists, rt \in RatioLists,
       st \in Steps :
        /\ img_shape = shape
        /\ offset = off
        /\ layers_shape = [l \in 1 .. n |-> IF l = f THEN fs ELSE OtherShape]
        /\ anchor_sizes = [l \in 1 .. n |-> IF l = f THEN sz ELSE OtherSizes]
        /\ anchor_ratios = [l \in 1 .. n |-> IF l = f THEN rt ELSE OtherRatios]
        /\ anchor_steps = [l \in 1 .. n |-> IF l = f THEN st ELSE OtherStep]
        /\ layer_i = 0
        /\ layers_anchors = <<>>
        /\ all_anchors = <<>>
        /\ apc = "building"
        /\ LossIdle
        /\ SizesIdle

\* ---------------------------------------------------------------- actions
\* One iteration of "for img_idx in xrange(batch_size)".
MineImage ==
    /\ pc = "mining"
    /\ img_idx < tensor_shape(gclasses)[1]
    /\ selected_neg' = Append(selected_neg,
           selected_img_neg(gclasses, confidences, negative_ratio, img_idx))
    /\ img_idx' = img_idx + 1
    /\ UNCHANGED <<gclasses, confidences, logits, localizations,
                   glocalizations, negative_ratio, alpha, label_smoothing,
                   cls_weight, cls_loss, loc_loss, pc>>
    /\ UNCHANGED anchorVars
    /\ UNCHANGED sizeVars

\* After the loop: stack the rows, weight the anchors, compute both losses.
\* The mining error of an image surfaces in every tensor that depends on
\* selected_neg; loc_loss does not.
ComputeLosses ==
    /\ pc = "mining"
    /\ img_idx = tensor_shape(gclasses)[1]
    /\ LET failed == \E i \in 1 .. Len(selected_neg) : selected_neg[i].err
           w == ClsWeight(gclasses, selected_neg)
       IN  /\ cls_weight' = IF failed THEN NoWeights ELSE w
           /\ cls_loss' = IF failed THEN NoValue ELSE ClsLoss(logits, gclasses, w)
           /\ pc' = IF failed THEN "error" ELSE "done"
    /\ loc_loss' = LocLoss(localizations, glocalizations, gclasses, alpha)
    /\ UNCHANGED <<gclasses, confidences, logits, localizations,
                   glocalizations, negative_ratio, alpha, label_smoothing,
                   img_idx, selected_neg>>
    /\ UNCHANGED anchorVars
    /\ UNCHANGED sizeVars

Next == MineImage \/ ComputeLosses

Spec == Init /\ [][Next]_vars

\* One iteration of "for i, s in enumerate(layers_shape)"; layer_i is i.
\* anchor_sizes[i], anchor_ratios[i] and anchor_steps[i] raise IndexError
\* past the end of their list.
AnchorOneLayer ==
    /\ apc = "building"
    /\ layer_i < Len(layers_shape)
    /\ LET l == layer_i + 1
       IN  IF \/ l > Len(anchor_sizes)
              \/ l > Len(anchor_ratios)
              \/ l > Len(anchor_steps)
              \/ OneLayerRaises(anchor_sizes[l], anchor_ratios[l])
           THEN /\ apc' = "error"
                /\ UNCHANGED <<layer_i, layers_anchors>>
           ELSE /\ layers_anchors' = Append(layers_anchors,
                       ssd_anchor_one_layer(img_shape, layers_shape[l],
                           anchor_sizes[l], anchor_ratios[l],
                           anchor_steps[l], offset))
                /\ layer_i' = l
                /\ apc' = apc
    /\ UNCHANGED <<img_shape, layers_shape, anchor_sizes, anchor_ratios,
                   anchor_steps, offset, all_anchors>>
    /\ UNCHANGED lossVars
    /\ UNCHANGED sizeVars

\* all_anchors = np.vstack(layers_anchors); an empty list raises.
StackLayers ==
    /\ apc = "building"
    /\ layer_i = Len(layers_shape)
    /\ IF Len(layers_anchors) = 0
       THEN apc' = "error" /\ UNCHANGED all_anchors
       ELSE /\ all_anchors' = VStack(layers_anchors, Len(layers_anchors))
            /\ apc' = "done"
    /\ UNCHANGED <<img_shape, layers_shape, anchor_sizes, anchor_ratios,
                   anchor_steps, offset, layer_i, layers_anchors>>
    /\ UNCHANGED lossVars
    /\ UNCHANGED sizeVars

AnchorNext == AnchorOneLayer \/ StackLayers

AnchorSpec == InitAnchors /\ [][AnchorNext]_vars

\* ------------------------------------------------------------ properties
\* What the properties say is written from the inputs alone, not with the
\* operators of the mining code.
Mined(b) == b < img_idx
Result(b) == selected_neg[b + 1]
Negatives(b) == {a \in Anchors : ~(gclasses[b][a] > 0)}
Positives(b) == {a \in Anchors : gclasses[b][a] > 0}
Selected(b) == {a \in Anchors : Result(b).sel[a] = 1}
Min(x, y) == IF x <= y THEN x ELSE y

\* min(number of negatives, floor(n_pos * negative_ratio))
TargetNeg(b) ==
    Min(Cardinality(Negatives(b)),
        (Cardinality(Positives(b)) * negative_ratio[1]) \div negative_ratio[2])

\* The k-th smallest background confidence among the negatives of image b.
KthSmallestNeg(b, k) ==
    CHOOSE v \in ConfLevels :
        /\ \E a \in Negatives(b) : confidences[b][a] = v
        /\ Cardinality({a \in Negatives(b) : confidences[b][a] < v}) < k
        /\ Cardinality({a \in Negatives(b) : confidences[b][a] <= v}) >= k

DistinctNegConf(b) ==
    \A a1, a2 \in Negatives(b) :
        a1 # a2 => confidences[b][a1] # confidences[b][a2]

C1_WitnessStrict ==
    \E b \in Images :
        /\ Mined(b)
        /\ Cardinality(Positives(b)) = 1
        /\ TargetNeg(b) = 1
        /\ DistinctNegConf(b)
        /\ Cardinality(Selected(b)) = 1
        /\ Cardinality(Negatives(b)) = 2

\* C2: an image whose anchors are all labelled 0 gets zero selected
\* negatives without error, and classification weight 0 on every anchor,
\* whatever its confidences and the other images of the batch are.
C2_ZeroPositiveImage ==
    \A b \in Images :
        (Mined(b) /\ \A a \in Anchors : gclasses[b][a] = 0) =>
            /\ ~Result(b).err
            /\ Selected(b) = {}
            /\ pc = "done" => \A a \in Anchors : cls_weight[b][a] = 0

\* The losses are computed for a batch where one image has no positive and
\* low background confidences, and another image has positives and selected
\* negatives.
C2_Witness ==
    /\ pc = "done"
    /\ \E b, o \in Images :
        /\ \A a \in Anchors : gclasses[b][a] = 0
        /\ \E a \in Anchors : confidences[b][a] = 0
        /\ Positives(o) # {}
        /\ Selected(o) # {}

BatchPositives ==
    Cardinality({x \in Images \X Anchors : gclasses[x[1]][x[2]] > 0})

\* C3: when no anchor of the batch is positive, ssd_losses ends without
\* error with classification loss exactly 0 and localization loss exactly
\* 0 (a number, not the NaN of a division by N = 0).
C3_ZeroPositiveBatch ==
    (pc # "mining" /\ BatchPositives = 0) =>
        /\ pc = "done"
        /\ cls_loss = [kind |-> "num", num |-> 0, den |-> 1]
        /\ loc_loss = [kind |-> "num", num |-> 0, den |-> 1]

\* A finished batch without positives where the predicted localizations
\* differ from the targets and the logits give a non-zero cross-entropy.
C3_Witness ==
    /\ pc = "done"
    /\ BatchPositives = 0
    /\ \E b \in Images, a \in Anchors :
        /\ localizations[b][a] # glocalizations[b][a]
        /\ logits[b][a][gclasses[b][a]] > 0
    /\ alpha = 2

\* C4: the classification weight of an anchor is 1 if it is positive, 1 if
\* it is a selected negative and 0 otherwise, never another value; no
\* positive anchor is in the selected set.
C4_ClsWeightInvariant ==
    /\ \A b \in Images :
        (Mined(b) /\ ~Result(b).err) => Selected(b) \subseteq Negatives(b)
    /\ pc = "done" =>
        \A b \in Images, a \in Anchors :
            /\ cls_weight[b][a] \in {0, 1}
            /\ cls_weight[b][a] = 1 <=>
                   (gclasses[b][a] > 0 \/ a \in Selected(b))

\* The losses are computed for an image with a positive anchor and a
\* selected negative whose background confidence is 1.0.
C4_Witness ==
    /\ pc = "done"
    /\ \E b \in Images, a \in Anchors :
        /\ Positives(b) # {}
        /\ a \in Selected(b)
        /\ confidences[b][a] = ConfMax

\* Mining of a row alone, as a batch of one image.
AloneG(b) == [i \in {0} |-> gclasses[b]]
AloneC(b) == [i \in {0} |-> confidences[b]]

\* The batch with the rows of every image but b replaced: labels by a row
\* without positives, with one positive or with positives only,
\* confidences by a constant row.
OtherG(b, k) == [i \in Images |-> IF i = b THEN gclasses[b] ELSE RepG(k)]
OtherC(b, v) ==
    [i \in Images |-> IF i = b THEN confidences[b] ELSE [a \in Anchors |-> v]]
Changes == {<<"none", 0>>, <<"one", ConfMax>>, <<"all", 0>>}

\* C5: the outcome kept for a mined image is the outcome of mining that image
\* alone, so it does not depend on the order in which images are mined; and
\* the iteration that mines it has the same outcome when the labels and
\* confidences of the other images are changed.
C5_PerImageIndependence ==
    \A b \in Images :
        Mined(b) =>
            /\ Result(b) = selected_img_neg(AloneG(b), AloneC(b), negative_ratio, 0)
            /\ (b + 1 = img_idx /\ pc = "mining") =>
                   \A ch \in Changes :
                       selected_img_neg(OtherG(b, ch[1]), OtherC(b, ch[2]),
                                        negative_ratio, b) = Result(b)

\* Two mined images with different numbers of positives, one of them with
\* selected negatives and not all of its negatives selected.
C5_Witness ==
    \E b, o \in Images :
        /\ Mined(b) /\ Mined(o)
        /\ Cardinality(Positives(b)) # Cardinality(Positives(o))
        /\ Selected(b) # {}
        /\ Selected(b) # Negatives(b)

\* alpha * (sum of the penalties of the positive anchors) / N, in eighths.
PositivePenalty ==
    SumOver({x \in Images \X Anchors : gclasses[x[1]][x[2]] > 0},
            [x \in Images \X Anchors |->
                AnchorPenalty(localizations[x[1]][x[2]], glocalizations[x[1]][x[2]])])

\* The predictions (targets) of the background anchors replaced by v.
BackgroundSet(t, v) ==
    [b \in Images |-> [a \in Anchors |->
        IF gclasses[b][a] = 0 THEN v ELSE t[b][a]]]

\* C6: the localization loss is alpha * sum(penalty over positive anchors)
\* / N, and a second call whose localizations and targets differ only on
\* background anchors returns the same localization loss.
C6_LocalizationMasking ==
    pc # "mining" =>
        /\ BatchPositives > 0 =>
               /\ loc_loss.kind = "num"
               /\ loc_loss.num * 8 * BatchPositives =
                      loc_loss.den * alpha * PositivePenalty
        /\ \A v, w \in LocSet :
               LocLoss(BackgroundSet(localizations, v),
                       BackgroundSet(glocalizations, w),
                       gclasses, alpha) = loc_loss

\* A finished batch with positives, a non-zero localization loss, and a
\* background anchor whose prediction differs from its target.
C6_Witness ==
    /\ pc = "done"
    /\ BatchPositives > 0
    /\ loc_loss.num > 0
    /\ \E b \in Images, a \in Anchors :
        /\ gclasses[b][a] = 0
        /\ localizations[b][a] # glocalizations[b][a]

\* ------------------------------------------------- properties of anchors
Levels == 1 .. Len(layers_shape)
FeatH(l) == layers_shape[l][1]
FeatW(l) == layers_shape[l][2]
ShapesPerCell(l) == Len(anchor_sizes[l]) + Len(anchor_ratios[l])
LevelCount(l) == FeatH(l) * FeatW(l) * ShapesPerCell(l)
RECURSIVE CountBelow(_)
CountBelow(l) == IF l <= 1 THEN 0 ELSE CountBelow(l - 1) + LevelCount(l - 1)
TotalCount == CountBelow(Len(layers_shape) + 1)
FlatIndex(l, i, j, k) == CountBelow(l) + (i * FeatW(l) + j) * ShapesPerCell(l) + k
Returned == apc = "done"
Finished == apc \in {"done", "error"}
Square == img_shape[1] = img_shape[2]

\* Centre of cell (i, j) of level l: (index + offset) * step / image side.
CenterX(l, j) ==
    Rat((j * offset[2] + offset[1]) * anchor_steps[l], offset[2] * img_shape[2])
CenterY(l, i) ==
    Rat((i * offset[2] + offset[1]) * anchor_steps[l], offset[2] * img_shape[1])

\* C7: a finished anchor generation has returned, without an error, exactly
\* the sum over the levels of H * W * (|sizes| + |ratios|) anchors, each a
\* row of 4 values.
C7_AnchorCount ==
    Finished =>
        /\ Returned
        /\ Len(all_anchors) = TotalCount
        /\ \A n \in 1 .. Len(all_anchors) : Len(all_anchors[n]) = 4

\* C7 witness: two levels that differ in shape and in shapes per cell.
C7_Witness ==
    /\ Returned
    /\ Len(layers_shape) = 2
    /\ LevelCount(1) # LevelCount(2)
    /\ ShapesPerCell(1) # ShapesPerCell(2)
    /\ Len(all_anchors) = TotalCount

ExampleCall ==
    /\ img_shape = <<512, 512>>
    /\ layers_shape = <<<<2, 2>>>>
    /\ Len(anchor_sizes) = 1
    /\ Len(anchor_sizes[1]) = 1
    /\ anchor_sizes[1][1].num = 100
    /\ anchor_sizes[1][1].den = 1
    /\ anchor_ratios = <<<<>>>>
    /\ anchor_steps = <<256>>
    /\ offset = <<1, 2>>
ExampleAnchor(xn, yn) ==
    <<Rat(xn, 4), Rat(yn, 4), Root(100 * 100, 512 * 512), Root(100 * 100, 512 * 512)>>

\* The centres of every returned anchor are (index + offset) * step / side.
CentersFromStride ==
    Returned =>
        \A l \in Levels :
            \A i \in 0 .. (FeatH(l) - 1), j \in 0 .. (FeatW(l) - 1),
               k \in 0 .. (ShapesPerCell(l) - 1) :
                /\ all_anchors[FlatIndex(l, i, j, k) + 1][1] = CenterX(l, j)
                /\ all_anchors[FlatIndex(l, i, j, k) + 1][2] = CenterY(l, i)

\* C9: centres are (index + offset) * step / image side, and the example
\* call returns the centres (0.25, 0.25), (0.75, 0.25), (0.25, 0.75),
\* (0.75, 0.75), all with width = height = 100 / 512.
C9_StrideBasedCenters ==
    /\ CentersFromStride
    /\ (Returned /\ ExampleCall) =>
           all_anchors = <<ExampleAnchor(1, 1), ExampleAnchor(3, 1),
                           ExampleAnchor(1, 3), ExampleAnchor(3, 3)>>

\* C9 for the example call with the size written as a float, 100.0.
C9_ExampleWithFloatSize ==
    (Returned /\ ExampleCall /\ anchor_sizes[1][1].t = "float") =>
        all_anchors = <<ExampleAnchor(1, 1), ExampleAnchor(3, 1),
                        ExampleAnchor(1, 3), ExampleAnchor(3, 3)>>

\* The example call with the size written as the int 100 has returned.
C9_ExampleWithIntSize ==
    Returned /\ ExampleCall /\ anchor_sizes[1][1].t = "int"

\* The example call with the int size returns anchors of width and height 0.
C9_IntSizeGivesZero ==
    C9_ExampleWithIntSize =>
        \A n \in 1 .. 4 :
            /\ all_anchors[n][3] = Root(0, 1)
            /\ all_anchors[n][4] = Root(0, 1)

InitMismatch ==
    \E shape \in ImgShapes, off \in Offsets :
    \E nl \in 0 .. MaxLevels, ns \in 0 .. MaxLevels, nr \in 0 .. MaxLevels,
       nt \in 0 .. MaxLevels :
        /\ img_shape = shape
        /\ offset = off
        /\ layers_shape = [l \in 1 .. nl |-> OtherShape]
        /\ anchor_sizes = [l \in 1 .. ns |-> OtherSizes]
        /\ anchor_ratios = [l \in 1 .. nr |-> OtherRatios]
        /\ anchor_steps = [l \in 1 .. nt |-> OtherStep]
        /\ layer_i = 0
        /\ layers_anchors = <<>>
        /\ all_anchors = <<>>
        /\ apc = "building"
        /\ LossIdle
        /\ SizesIdle

MismatchSpec == InitMismatch /\ [][AnchorNext]_vars

Mismatched ==
    \/ Len(anchor_sizes) # Len(layers_shape)
    \/ Len(anchor_ratios) # Len(layers_shape)
    \/ Len(anchor_steps) # Len(layers_shape)

\* The three other lists are at least as long as layers_shape and one of
\* them is longer.
LongerLists ==
    /\ Mismatched
    /\ Len(layers_shape) >= 1
    /\ Len(anchor_sizes) >= Len(layers_shape)
    /\ Len(anchor_ratios) >= Len(layers_shape)
    /\ Len(anchor_steps) >= Len(layers_shape)

\* C11: a call whose lists of feature shapes, sizes, ratios and steps do
\* not all have the same length ends in an error and never returns an
\* anchor set.
C11_MismatchRejected ==
    (Mismatched /\ Finished) => apc = "error"

\* A list shorter than layers_shape ends the call in an IndexError.
C11_ShorterListRaises ==
    ((\/ Len(anchor_sizes) < Len(layers_shape)
      \/ Len(anchor_ratios) < Len(layers_shape)
      \/ Len(anchor_steps) < Len(layers_shape)) /\ Finished) => apc = "error"

\* Lists longer than layers_shape are cut to its length: the call returns
\* the anchors of the first Len(layers_shape) entries of each list.
C11_LongerListsTruncated ==
    (LongerLists /\ Finished) =>
        /\ Returned
        /\ Len(all_anchors) = TotalCount
        /\ all_anchors = VStack([l \in Levels |->
               ssd_anchor_one_layer(img_shape, layers_shape[l],
                   anchor_sizes[l], anchor_ratios[l], anchor_steps[l],
                   offset)], Len(layers_shape))

\* A call with longer lists has returned anchors.
C11_TruncatedCall ==
    LongerLists /\ Returned /\ Len(all_anchors) > 0

\* ------------------------------------------------ default configuration
\* SSDNet.default_params: sizes in hundredths, ratios as num/den.
DefaultImgShape == <<512, 512>>
DefaultFeatShapes ==
    <<<<64, 64>>, <<32, 32>>, <<16, 16>>, <<8, 8>>, <<4, 4>>, <<2, 2>>, <<1, 1>>>>
DefaultSizes ==
    <<<<PyFloat(2048, 100), PyFloat(5120, 100)>>,
      <<PyFloat(5120, 100), PyFloat(13312, 100)>>,
      <<PyFloat(13312, 100), PyFloat(21504, 100)>>,
      <<PyFloat(21504, 100), PyFloat(29696, 100)>>,
      <<PyFloat(29696, 100), PyFloat(37888, 100)>>,
      <<PyFloat(37888, 100), PyFloat(46080, 100)>>,
      <<PyFloat(46080, 100), PyFloat(54272, 100)>>>>
TwoRatios == <<<<4, 1>>, <<1, 4>>>>
FourRatios == <<<<4, 1>>, <<8, 1>>, <<1, 4>>, <<1, 8>>>>
DefaultRatios ==
    <<TwoRatios, FourRatios, FourRatios, FourRatios, FourRatios, TwoRatios,
      TwoRatios>>
DefaultSteps == <<8, 16, 32, 64, 128, 256, 512>>
DefaultOffset == <<1, 2>>
DefaultLevels == 1 .. Len(DefaultFeatShapes)

\* The img_shape argument of SSDNet.anchors: the default shape, a larger
\* square one and a non-square one.
CallShapes == {DefaultImgShape, <<1024, 1024>>, <<512, 1024>>}

\* SSDNet.anchors(img_shape) with the default parameters, for the whole
\* list of feature layers or for its last n layers only.
InitDefault ==
    \E shape \in CallShapes, n \in DefaultLevels :
    LET lo == Len(DefaultFeatShapes) + 1 - n
        hi == Len(DefaultFeatShapes)
    IN  /\ img_shape = shape
        /\ offset = DefaultOffset
        /\ layers_shape = SubSeq(DefaultFeatShapes, lo, hi)
        /\ anchor_sizes = SubSeq(DefaultSizes, lo, hi)
        /\ anchor_ratios = SubSeq(DefaultRatios, lo, hi)
        /\ anchor_steps = SubSeq(DefaultSteps, lo, hi)
        /\ layer_i = 0
        /\ layers_anchors = <<>>
        /\ all_anchors = <<>>
        /\ apc = "building"
        /\ LossIdle
        /\ SizesIdle

DefaultSpec == InitDefault /\ [][AnchorNext]_vars

DefaultCall == img_shape = DefaultImgShape
WholeDefault == DefaultCall /\ Len(layers_shape) = Len(DefaultFeatShapes)
InUnit(q) == q.num >= 0 /\ q.num <= q.den
Positive(q) == q.num > 0 /\ q.den > 0

\* C12 as stated: every anchor of the default configuration has center_x,
\* center_y, width and height within 0..1.
C12_AnchorRange ==
    (Returned /\ DefaultCall) =>
        \A n \in 1 .. Len(all_anchors) :
            /\ InUnit(all_anchors[n][1])
            /\ InUnit(all_anchors[n][2])
            /\ InUnit(all_anchors[n][3].sq)
            /\ InUnit(all_anchors[n][4].sq)

\* C12 as the code behaves: every anchor of the default configuration has
\* its centre strictly inside 0..1 and a positive width and height; the
\* extent is not bounded by 1: the last row of the whole set, the ratio
\* 1/4 anchor of the last level, has width 0.45 and height 1.8.
C12_CentersInUnitRange ==
    (Returned /\ DefaultCall) =>
        /\ \A n \in 1 .. Len(all_anchors) :
               /\ InUnit(all_anchors[n][1]) /\ Positive(all_anchors[n][1])
               /\ all_anchors[n][1].num < all_anchors[n][1].den
               /\ InUnit(all_anchors[n][2]) /\ Positive(all_anchors[n][2])
               /\ all_anchors[n][2].num < all_anchors[n][2].den
               /\ Positive(all_anchors[n][3].sq)
               /\ Positive(all_anchors[n][4].sq)
        /\ WholeDefault =>
               /\ all_anchors[Len(all_anchors)][3] = Root(81, 400)
               /\ all_anchors[Len(all_anchors)][4] = Root(81, 25)

\* C12 witness: anchors of the default configuration have been returned,
\* one of them wider than the image.
C12_Witness ==
    /\ Returned
    /\ DefaultCall
    /\ Len(all_anchors) = TotalCount
    /\ \E n \in 1 .. Len(all_anchors) : ~InUnit(all_anchors[n][3].sq)

\* ------------------------------------------------------- label smoothing
\* Calls of SSDNet.losses in which labels, logits and label_smoothing vary.
InitSmooth ==
    \E f \in Images, gr \in GRows, lg \in LogitRows, k \in RepKinds,
       ls \in Smoothings :
        /\ gclasses = [b \in Images |-> IF b = f THEN gr ELSE RepG(k)]
        /\ confidences = [b \in Images |-> RepC]
        /\ negative_ratio = <<3, 1>>
        /\ logits = [b \in Images |-> [a \in Anchors |-> lg]]
        /\ localizations = [b \in Images |-> [a \in Anchors |-> ZeroLoc]]
        /\ glocalizations = [b \in Images |-> [a \in Anchors |-> ZeroLoc]]
        /\ alpha = 1
        /\ label_smoothing = ls
        /\ Fresh
        /\ AnchorIdle
        /\ SizesIdle

SmoothSpec == InitSmooth /\ [][Next]_vars

\* Cross-entropy against the softened target
\* (1 - label_smoothing) * one_hot + label_smoothing / K, K the number of
\* labels, times den * K for label_smoothing = num / den.
SoftXEnt(lg, g, ls) ==
    LET K == Cardinality(Labels)
    IN  [b \in DOMAIN g |-> [a \in Anchors |->
            (ls[2] - ls[1]) * K * lg[b][a][g[b][a]]
                + ls[1] * SumOver(Labels, lg[b][a])]]

\* The weighted mean over N of the softened cross-entropy; 0 when N = 0.
SoftClsLoss(lg, g, w, ls) ==
    IF NPos(g) > 0
    THEN FloatDiv(SumOver(DOMAIN g, [b \in DOMAIN g |->
                      SumOver(Anchors, [a \in Anchors |->
                          SoftXEnt(lg, g, ls)[b][a] * w[b][a]])]),
                  ls[2] * Cardinality(Labels) * NPos(g))
    ELSE Zero

Smoothed == label_smoothing[1] # 0

\* C13: the classification loss is the weighted cross-entropy against the
\* targets softened by label_smoothing; with label_smoothing = 0 it is
\* the unsmoothed weighted cross-entropy.
C13_LabelSmoothing ==
    pc = "done" =>
        /\ cls_loss = SoftClsLoss(logits, gclasses, cls_weight, label_smoothing)
        /\ ~Smoothed => cls_loss = ClsLoss(logits, gclasses, cls_weight)

\* Whatever label_smoothing is, the classification loss is the unsmoothed
\* weighted cross-entropy.
C13_SmoothingIgnored ==
    pc = "done" => cls_loss = ClsLoss(logits, gclasses, cls_weight)

\* With label_smoothing = 0 the softened and the unsmoothed loss agree.
C13_ZeroDisables ==
    (pc = "done" /\ ~Smoothed) =>
        cls_loss = SoftClsLoss(logits, gclasses, cls_weight, label_smoothing)

\* A call with label_smoothing = 0.1 has returned a loss that differs from
\* the loss against the softened targets.
C13_SmoothedCallUnsmoothed ==
    /\ pc = "done"
    /\ Smoothed
    /\ cls_loss # SoftClsLoss(logits, gclasses, cls_weight, label_smoothing)

\* ---------------------------------------- zero target count of negatives
ZeroTarget(b) == Mined(b) /\ Cardinality(Positives(b)) > 0 /\ TargetNeg(b) = 0

\* C14: an image with positives whose target count of negatives is 0 is
\* mined without error and with no negative selected, and its
\* classification weights are 1 on the positives and 0 elsewhere.
C14_ZeroTargetCount ==
    \A b \in Images :
        ZeroTarget(b) =>
            /\ ~Result(b).err
            /\ Selected(b) = {}
            /\ pc # "error"
            /\ pc = "done" =>
                   \A a \in Anchors :
                       cls_weight[b][a] = IF a \in Positives(b) THEN 1 ELSE 0

\* Mining such an image raises: top_k returns an empty val and val[-1] is
\* out of bounds; ssd_losses then yields no classification loss.
C14_ZeroTargetRaises ==
    \A b \in Images :
        ZeroTarget(b) =>
            /\ Result(b).err
            /\ pc # "done"
            /\ cls_loss = NoValue

\* A batch with an all-positive image, and one with a single positive under
\* negative_ratio 1/2, have ended in the error.
C14_AllPositiveFails ==
    /\ pc = "error"
    /\ \E b \in Images : ZeroTarget(b) /\ Negatives(b) = {}
C14_SmallRatioFails ==
    /\ pc = "error"
    /\ \E b \in Images :
           ZeroTarget(b) /\ Negatives(b) # {} /\ Cardinality(Positives(b)) = 1

\* -------------------------------------------- ssd_size_bounds_to_values
\* size_bounds is kept in hundredths, as the pair
\* (int(size_bounds[0] * 100), int(size_bounds[1] * 100)).
min_ratio == size_bounds[1]
max_ratio == size_bounds[2]
img_size == size_img_shape[1]

\* step = int(math.floor((max_ratio - min_ratio) / (n_feat_layers - 2)))
StepOf(lo, hi, n) == (hi - lo) \div (n - 2)

\* [img_size * 0.04, img_size * 0.1]
FirstSizes == <<PyFloat(img_size * 4, 100), PyFloat(img_size * 10, 100)>>
\* (img_size * ratio / 100., img_size * (ratio + step) / 100.)
SizePair(r, st) ==
    <<PyFloat(img_size * r, 100), PyFloat(img_size * (r + st), 100)>>

SquareShapes == {<<512, 512>>, <<300, 300>>}
SizeShapes == SquareShapes \cup {<<512, 256>>}
DefaultBounds == <<10, 90>>
DefaultFeatLayers == 7

\* Calls with percentages up to MaxPercent and up to MaxFeatLayers layers,
\* and the call with the default bounds for the default 7 feature layers.
InitSizes ==
    /\ \/ \E lo \in 0 .. MaxPercent, hi \in 0 .. MaxPercent,
             n \in 3 .. MaxFeatLayers, shape \in SizeShapes :
              /\ lo < hi
              /\ size_bounds = <<lo, hi>>
              /\ n_feat_layers = n
              /\ size_img_shape = shape
       \/ /\ size_bounds = DefaultBounds
          /\ n_feat_layers = DefaultFeatLayers
          /\ size_img_shape = DefaultImgShape
    /\ sb_step = 0
    /\ sb_ratio = 0
    /\ sb_sizes = <<>>
    /\ spc = "call"
    /\ LossIdle
    /\ AnchorIdle

\* From the assert to the start of the loop. The assert fails on a
\* non-square shape, the division on n_feat_layers = 2, range() on step 0.
SizeBoundsEnter ==
    /\ spc = "call"
    /\ IF \/ size_img_shape[1] # size_img_shape[2]
          \/ n_feat_layers = 2
          \/ StepOf(min_ratio, max_ratio, n_feat_layers) = 0
       THEN /\ spc' = "error"
            /\ UNCHANGED <<sb_step, sb_ratio, sb_sizes>>
       ELSE /\ sb_step' = StepOf(min_ratio, max_ratio, n_feat_layers)
            /\ sb_sizes' = <<FirstSizes>>
            /\ sb_ratio' = min_ratio
            /\ spc' = "loop"
    /\ UNCHANGED <<size_bounds, n_feat_layers, size_img_shape>>
    /\ UNCHANGED <<lossVars, anchorVars>>

\* One iteration of "for ratio in range(min_ratio, max_ratio + 1, step)".
SizeBoundsAppend ==
    /\ spc = "loop"
    /\ sb_ratio < max_ratio + 1
    /\ sb_sizes' = Append(sb_sizes, SizePair(sb_ratio, sb_step))
    /\ sb_ratio' = sb_ratio + sb_step
    /\ UNCHANGED <<size_bounds, n_feat_layers, size_img_shape, sb_step, spc>>
    /\ UNCHANGED <<lossVars, anchorVars>>

\* return sizes
SizeBoundsReturn ==
    /\ spc = "loop"
    /\ ~(sb_ratio < max_ratio + 1)
    /\ spc' = "done"
    /\ UNCHANGED <<size_bounds, n_feat_layers, size_img_shape, sb_step,
                   sb_ratio, sb_sizes>>
    /\ UNCHANGED <<lossVars, anchorVars>>

SizesNext == SizeBoundsEnter \/ SizeBoundsAppend \/ SizeBoundsReturn

SizesSpec == InitSizes /\ [][SizesNext]_vars

SquareCall == size_img_shape[1] = size_img_shape[2]
SizesFinished == spc \in {"done", "error"}
ClaimedStep == (max_ratio - min_ratio) \div (n_feat_layers - 2)

\* C15: for a square image shape the call ends without error and returns a
\* list of exactly n_feat_layers entries.
C15_OnePairPerScale ==
    (SquareCall /\ SizesFinished) =>
        /\ spc = "done"
        /\ Len(sb_sizes) = n_feat_layers

\* What the call returns: it raises when the step is 0, that is when
\* max_ratio - min_ratio < n_feat_layers - 2, and otherwise returns
\* 2 + (max_ratio - min_ratio) div step entries.
C15_ReturnedCount ==
    (SquareCall /\ SizesFinished) =>
        /\ spc = "error" <=> ClaimedStep = 0
        /\ spc = "done" =>
               Len(sb_sizes) = 2 + (max_ratio - min_ratio) \div ClaimedStep

\* The default call returns 7 entries.
C15_DefaultCount ==
    (spc = "done" /\ size_bounds = DefaultBounds
         /\ n_feat_layers = DefaultFeatLayers) =>
        Len(sb_sizes) = DefaultFeatLayers

\* Calls that have ended with too many entries, with the error, and the
\* default call with its 7 entries.
C15_TooManyEntries ==
    SquareCall /\ spc = "done" /\ Len(sb_sizes) > n_feat_layers
C15_StepZeroRaises ==
    SquareCall /\ spc = "error"
C15_DefaultReturned ==
    /\ spc = "done"
    /\ size_bounds = DefaultBounds
    /\ n_feat_layers = DefaultFeatLayers
    /\ Len(sb_sizes) = DefaultFeatLayers

====
